---- MODULE Spec2Model ----
(***************************************************************************)
(* jiravars: a Prometheus exporter that polls a JIRA search endpoint, one  *)
(* goroutine per configured metric, and publishes per-component counts in  *)
(* one GaugeVec per metric (src/main.go).                                  *)
(*                                                                         *)
(* The model covers loadConfiguration (the intervals), setupGauges (the    *)
(* registration of the gauge vectors), check (the polling goroutines,      *)
(* their requests, their ticker, the cancellation context and the          *)
(* WaitGroup that joins them) and the shutdown of main (the signal         *)
(* goroutine, the HTTP server, the outer WaitGroup).  The registry and the *)
(* GaugeVec are modelled by what the calls made in main.go do: Register    *)
(* rejects a second collector with the same fully-qualified name,          *)
(* WithLabelValues panics when the number of label values differs from the *)
(* number of label names the vector was created with, Set stores one       *)
(* child's value atomically, and Gather lists the families that have at    *)
(* least one child.                                                        *)
(***************************************************************************)
EXTENDS Integers, Sequences, FiniteSets, TLC

VARIABLES
    cfg,        \* the configuration: BaseURLValid, Metrics (Name, Help, Labels, GaugeVec)
    registry,   \* the collectors registered so far, in registration order
    setupErr,   \* "unset" before setupGauges ran, then "nil" or "error"
    gauges,     \* gauges[i]: the children of cfg.Metrics[i].GaugeVec, label values -> value
    committed,  \* history: committed[i] is gauges[i] as the last finished update loop left it
    ctxDone,    \* whether ctx has been cancelled
    spawned,    \* how many goroutines check's for loop has started
    wg,         \* the WaitGroup counter of check
    returned,   \* whether check has returned
    pc,         \* pc[i]: the position of the goroutine polling metric i
    tick,       \* tick[i]: whether a tick is buffered in timer.C of goroutine i
    outcome,    \* outcome[i]: how the cycle of goroutine i ended: "none" while it
                \* is under way (or none has begun), "error" (logged), "ok"
    result,     \* result[i]: the JiraResponse decoded by the cycle of goroutine i
    pending,    \* pending[i]: keys of componentCounts the update loop has not written yet
    crashed,    \* whether a goroutine has panicked or log.Fatal was called (the process is gone)
    inflight,   \* inflight[i]: requests goroutine i has sent and that are not answered yet
    request,    \* request[i]: the header of the request of goroutine i that is in flight
    loadErr,    \* "unset" before loadConfiguration ran, then "nil" or "error"
    mainPc,     \* the position of main
    sigPc,      \* the position of the goroutine of main that waits for a signal
    mainWg      \* the goroutines main's WaitGroup still counts

vars == <<cfg, registry, setupErr, gauges, committed, ctxDone, spawned, wg, returned,
          pc, tick, outcome, result, pending, crashed,
          inflight, request, loadErr, mainPc, sigPc, mainWg>>

\* what only the cycle's request touches, and what only main touches
reqVars == <<inflight, request>>
procVars == <<loadErr, mainPc, sigPc, mainWg>>

(***************************************************************************)
(* Bounds of the model.                                                    *)
(***************************************************************************)
MaxMetrics == 2      \* metric definitions in a configuration
MaxIssues == 2       \* issues in one response
MaxComps == 1        \* components carried by one issue
MaxTotal == 2        \* the "total" member of a response body

Names == {"a", "b"}
Helps == {"h1", "h2"}
Components == {"A", "B"}
LabelKeySets == {{}, {"component"}, {"component", "team"}}
LabelValues == {"v"}
Intervals == {"", "5m", "0s", "-1m", "x"}
HeaderNames == {"X-Custom", "x-custom", "Authorization", "authorization"}
HeaderValues == {"s1", "s2"}

SeqsUpTo(S, n) == UNION {[1..k -> S] : k \in 0..n}

EmptyMap == [x \in {} |-> 0]

(***************************************************************************)
(* Configuration (types of main.go).                                       *)
(***************************************************************************)
NoGaugeVec == [fqName |-> "", help |-> "", labelNames |-> {}, set |-> FALSE]

LabelMaps == UNION {[ks -> LabelValues] : ks \in LabelKeySets}

\* a metric as the YAML file gives it: ParsedInterval and GaugeVec are not
\* read from the file
metricConfiguration ==
    [Name : Names, Help : Helps, Interval : Intervals, Labels : LabelMaps,
     ParsedInterval : {0}, GaugeVec : {NoGaugeVec}]

HeaderMaps == UNION {[ks -> HeaderValues] : ks \in SUBSET HeaderNames}

\* the headers and credentials of the configurations whose polling is
\* explored; the requests built from other headers are explored on their own
PlainHeaders == [k \in {"X-Custom"} |-> "s1"]

configuration ==
    [BaseURLValid : BOOLEAN, Login : {"user"}, Password : {"secret"},
     HTTPHeaders : {PlainHeaders},
     Metrics : SeqsUpTo(metricConfiguration, MaxMetrics)]

(***************************************************************************)
(* loadConfiguration: the loop over the intervals.  Durations are counted  *)
(* in minutes.                                                             *)
(***************************************************************************)
DefaultInterval == "5m"

\* time.ParseDuration on the interval strings of the model: a signed number
\* with a unit is a duration, zero and negative ones included; the empty
\* string and a string without a number are errors.
ParseDuration(str) ==
    CASE str = "5m"  -> [dur |-> 5, err |-> "nil"]
      [] str = "0s"  -> [dur |-> 0, err |-> "nil"]
      [] str = "-1m" -> [dur |-> 0 - 1, err |-> "nil"]
      [] OTHER       -> [dur |-> 0, err |-> "error"]

RECURSIVE loadFrom(_, _)
loadFrom(metrics, i) ==
    IF i > Len(metrics)
    THEN [metrics |-> metrics, err |-> "nil"]
    ELSE LET iv == IF metrics[i].Interval = "" THEN DefaultInterval
                   ELSE metrics[i].Interval
             d  == ParseDuration(iv)
             ms == [metrics EXCEPT ![i].Interval = iv]
         IN  IF d.err # "nil"
             THEN [metrics |-> ms, err |-> "error"]
             ELSE loadFrom([ms EXCEPT ![i].ParsedInterval = d.dur], i + 1)

loadConfiguration(c) ==
    LET r == loadFrom(c.Metrics, 1) IN
    [cfg |-> [c EXCEPT !.Metrics = r.metrics], err |-> r.err]

\* the configurations loadConfiguration returns without an error
LoadedConfigs ==
    {loadConfiguration(c).cfg : c \in {r \in configuration : loadConfiguration(r).err = "nil"}}

\* time.NewTicker panics on an interval that is not positive
NewTickerPanics(d) == d <= 0

(***************************************************************************)
(* The request of a cycle: its header.  Header.Set stores a value under    *)
(* the canonical form of the name (the first letter and each letter after  *)
(* a hyphen in upper case, the others in lower case), replacing what is    *)
(* stored under it.                                                        *)
(***************************************************************************)
CanonicalMIMEHeaderKey(k) ==
    CASE k = "x-custom"      -> "X-Custom"
      [] k = "authorization" -> "Authorization"
      [] OTHER               -> k

HeaderSet(h, k, v) ==
    [c \in DOMAIN h \cup {CanonicalMIMEHeaderKey(k)} |->
        IF c = CanonicalMIMEHeaderKey(k) THEN v ELSE h[c]]

\* addHeaders ranges over a map, in an order that is not specified: the
\* headers that can result, one per order
RECURSIVE addHeadersFrom(_, _, _)
addHeadersFrom(h, headers, rest) ==
    IF rest = {} THEN {h}
    ELSE UNION {addHeadersFrom(HeaderSet(h, k, headers[k]), headers, rest \ {k}) :
                    k \in rest}

addHeaders(h, headers) == addHeadersFrom(h, headers, DOMAIN headers)

\* the value Request.SetBasicAuth stores: "Basic " and the base64 encoding
\* of login:password, which is kept here as the text it encodes
BasicAuth(login, password) == "Basic " \o login \o ":" \o password

SetBasicAuth(h, login, password) ==
    HeaderSet(h, "Authorization", BasicAuth(login, password))

\* (credentials set before the static headers)
BuildRequests_AuthFirst(c) ==
    addHeaders(SetBasicAuth(EmptyMap, c.Login, c.Password), c.HTTPHeaders)

\* the headers of the request a cycle sends: addHeaders(r, cfg.HTTPHeaders),
\* then r.SetBasicAuth(cfg.Login, cfg.Password)
BuildRequests(c) ==
    {SetBasicAuth(h, c.Login, c.Password) : h \in addHeaders(EmptyMap, c.HTTPHeaders)}

(***************************************************************************)
(* The response of the search endpoint.  A body that decodes carries a     *)
(* "total" and a list of issues; an issue is the list of the names of its  *)
(* components.  JiraResponse has no field for "total": decoding drops it.  *)
(***************************************************************************)
Issue == SeqsUpTo(Components, MaxComps)

Bodies == [total : 0..MaxTotal, issues : SeqsUpTo(Issue, MaxIssues)]

Decode(body) == body.issues

(***************************************************************************)
(* setupGauges and the registry.                                           *)
(***************************************************************************)
NewGaugeVec(m) ==
    [fqName |-> "jira_" \o m.Name, help |-> m.Help,
     labelNames |-> DOMAIN m.Labels, set |-> TRUE]

\* Register returns an error for a collector whose fully-qualified name is
\* already registered.
RegisterFails(reg, vec) == \E k \in 1..Len(reg) : reg[k].fqName = vec.fqName

RECURSIVE setupFrom(_, _, _)
setupFrom(reg, metrics, i) ==
    IF i > Len(metrics)
    THEN [registry |-> reg, metrics |-> metrics, err |-> "nil"]
    ELSE LET vec == NewGaugeVec(metrics[i])
             ms  == [metrics EXCEPT ![i].GaugeVec = vec]
         IN  IF RegisterFails(reg, vec)
             THEN [registry |-> reg, metrics |-> ms, err |-> "error"]
             ELSE setupFrom(Append(reg, vec), ms, i + 1)

setupGauges(reg, metrics) == setupFrom(reg, metrics, 1)

\* What a scrape (registry.Gather) returns: one family per registered
\* collector that has at least one child, with the children's values.
Gather(reg, children) ==
    {[name |-> reg[k].fqName, help |-> reg[k].help, type |-> "GAUGE",
      metric |-> children[k]] :
        k \in {j \in 1..Len(reg) : j \in DOMAIN children /\ DOMAIN children[j] # {}}}

(***************************************************************************)
(* The poll cycle of check.                                                *)
(***************************************************************************)
\* (a count that starts below zero)
Incr_FromMinusOne(counts, name) ==
    [c \in DOMAIN counts \cup {name} |->
        IF c = name
        THEN (IF name \in DOMAIN counts THEN counts[name] ELSE -2) + 1
        ELSE counts[c]]

Incr(counts, name) ==
    [c \in DOMAIN counts \cup {name} |->
        IF c = name
        THEN (IF name \in DOMAIN counts THEN counts[name] ELSE 0) + 1
        ELSE counts[c]]

RECURSIVE countComponents(_, _)
countComponents(comps, counts) ==
    IF comps = <<>> THEN counts
    ELSE countComponents(Tail(comps), Incr(counts, Head(comps)))

RECURSIVE countIssues(_, _)
countIssues(issues, counts) ==
    IF issues = <<>> THEN counts
    ELSE countIssues(Tail(issues), countComponents(Head(issues), counts))

componentCounts(res) == countIssues(res, EmptyMap)

\* GaugeVec.WithLabelValues panics unless it is given one value per label name.
WithLabelValuesPanics(vec, lvs) == Len(lvs) # Cardinality(vec.labelNames)

\* (a family that is emptied before each Set)
SetChild_Replace(children, lvs, v) == [k \in {lvs} |-> v]

\* Gauge.Set on the child for lvs.
SetChild(children, lvs, v) ==
    [k \in DOMAIN children \cup {lvs} |-> IF k = lvs THEN v ELSE children[k]]

\* The labels of the sample of a child: the label names of the vector, each
\* with the value WithLabelValues was given for it.  check gives one value,
\* so a child exists only in a vector with one label name.
LabelPairs(vec, lvs) == [k \in vec.labelNames |-> lvs[1]]

N == Len(cfg.Metrics)
Tasks == 1..N

(***************************************************************************)
(* Initial states.                                                         *)
(***************************************************************************)
Idle(c) ==
    /\ gauges = [i \in 1..Len(c.Metrics) |-> EmptyMap]
    /\ committed = [i \in 1..Len(c.Metrics) |-> EmptyMap]
    /\ ctxDone = FALSE
    /\ spawned = 0
    /\ returned = FALSE
    /\ pc = [i \in 1..Len(c.Metrics) |-> "nil"]
    /\ tick = [i \in 1..Len(c.Metrics) |-> FALSE]
    /\ outcome = [i \in 1..Len(c.Metrics) |-> "none"]
    /\ result = [i \in 1..Len(c.Metrics) |-> <<>>]
    /\ pending = [i \in 1..Len(c.Metrics) |-> {}]
    /\ crashed = FALSE
    /\ inflight = [i \in 1..Len(c.Metrics) |-> 0]
    /\ request = [i \in 1..Len(c.Metrics) |-> EmptyMap]

\* check is entered by main after setupGauges returned nil; Name and Help are
\* not read by check (Name only for logging), so one choice of them is kept:
\* the first metric is "a", any further one "b" (setupGauges accepts two).
CheckConfigs ==
    {c \in LoadedConfigs :
        /\ \A i \in 1..Len(c.Metrics) :
              /\ c.Metrics[i].Help = "h1"
              /\ c.Metrics[i].Name = (IF i = 1 THEN "a" ELSE "b")}

\* (a counter raised once more than there are goroutines)
Init_ExtraAdd ==
    \E c \in CheckConfigs :
        LET s == setupGauges(<<>>, c.Metrics) IN
        /\ s.err = "nil"
        /\ cfg = [c EXCEPT !.Metrics = s.metrics]
        /\ registry = s.registry
        /\ setupErr = s.err
        /\ wg = Len(c.Metrics) + 1
        /\ Idle(c)
        /\ loadErr = "nil"
        /\ mainPc = "serving"
        /\ sigPc = "wait"
        /\ mainWg = {"signal", "check"}

\* the state in which check has run wg.Add(len(cfg.Metrics)) and is about
\* to start the goroutines
Init ==
    \E c \in CheckConfigs :
        LET s == setupGauges(<<>>, c.Metrics) IN
        /\ s.err = "nil"
        /\ cfg = [c EXCEPT !.Metrics = s.metrics]
        /\ registry = s.registry
        /\ setupErr = s.err
        /\ wg = Len(c.Metrics)
        /\ Idle(c)
        /\ loadErr = "nil"
        /\ mainPc = "serving"
        /\ sigPc = "wait"
        /\ mainWg = {"signal", "check"}

(***************************************************************************)
(* check: the for loop starts one goroutine per metric, then wg.Wait().    *)
(***************************************************************************)
\* go func(idx, m) {...}(idx, m) for the next metric of cfg.Metrics
Spawn ==
    /\ ~crashed /\ ~returned
    /\ spawned < N
    /\ spawned' = spawned + 1
    /\ pc' = [pc EXCEPT ![spawned + 1] = "spawned"]
    /\ UNCHANGED <<cfg, registry, setupErr, gauges, committed, ctxDone, wg, returned,
                   tick, outcome, result, pending, crashed>>
    /\ UNCHANGED <<reqVars, procVars>>

\* (a loop that waits for the first tick before its first cycle)
StartTask_WaitsFirst(i) ==
    /\ ~crashed
    /\ pc[i] = "spawned"
    /\ IF NewTickerPanics(cfg.Metrics[i].ParsedInterval)
       THEN crashed' = TRUE /\ UNCHANGED pc
       ELSE pc' = [pc EXCEPT ![i] = "select"] /\ UNCHANGED crashed
    /\ UNCHANGED <<cfg, registry, setupErr, gauges, committed, ctxDone, spawned, wg,
                   returned, tick, outcome, result, pending>>
    /\ UNCHANGED <<reqVars, procVars>>

\* the goroutine starts: timer := time.NewTicker(m.ParsedInterval), which
\* panics on an interval that is not positive; otherwise the goroutine
\* enters the loop, whose body runs a cycle before anything is waited for
StartTask(i) ==
    /\ ~crashed
    /\ pc[i] = "spawned"
    /\ IF NewTickerPanics(cfg.Metrics[i].ParsedInterval)
       THEN crashed' = TRUE /\ UNCHANGED pc
       ELSE pc' = [pc EXCEPT ![i] = "cycle"] /\ UNCHANGED crashed
    /\ UNCHANGED <<cfg, registry, setupErr, gauges, committed, ctxDone, spawned, wg,
                   returned, tick, outcome, result, pending>>
    /\ UNCHANGED <<reqVars, procVars>>

\* the ticker of goroutine i fires; timer.C buffers one tick, a tick that
\* finds the buffer full is dropped
Tick(i) ==
    /\ ~crashed
    /\ pc[i] \in {"cycle", "inflight", "writing", "select"}
    /\ ~tick[i]
    /\ tick' = [tick EXCEPT ![i] = TRUE]
    /\ UNCHANGED <<cfg, registry, setupErr, gauges, committed, ctxDone, spawned, wg,
                   returned, pc, outcome, result, pending, crashed>>
    /\ UNCHANGED <<reqVars, procVars>>

\* the cycle builds the request; http.NewRequest fails on a URL that does
\* not parse (the URL is the same in every cycle: BaseURL decides) and the
\* closure returns; otherwise the headers and the credentials are set and
\* client.Do(r) is sent
BeginCycle(i) ==
    /\ ~crashed
    /\ pc[i] = "cycle"
    /\ pc' = [pc EXCEPT ![i] = IF cfg.BaseURLValid THEN "inflight" ELSE "select"]
    /\ outcome' = [outcome EXCEPT ![i] = IF cfg.BaseURLValid THEN "none" ELSE "error"]
    /\ IF cfg.BaseURLValid
       THEN /\ \E h \in BuildRequests(cfg) : request' = [request EXCEPT ![i] = h]
            /\ inflight' = [inflight EXCEPT ![i] = inflight[i] + 1]
       ELSE UNCHANGED reqVars
    /\ UNCHANGED <<cfg, registry, setupErr, gauges, committed, ctxDone, spawned, wg,
                   returned, tick, result, pending, crashed>>
    /\ UNCHANGED procVars

FailureKinds == {"transport", "status", "decode"}

\* (a failure that empties the family of the metric)
RespondFailure_Clears(i, kind) ==
    /\ ~crashed
    /\ pc[i] = "inflight"
    /\ inflight' = [inflight EXCEPT ![i] = inflight[i] - 1]
    /\ request' = [request EXCEPT ![i] = EmptyMap]
    /\ kind \in FailureKinds
    /\ pc' = [pc EXCEPT ![i] = "select"]
    /\ outcome' = [outcome EXCEPT ![i] = "error"]
    /\ gauges' = [gauges EXCEPT ![i] = EmptyMap]
    /\ committed' = [committed EXCEPT ![i] = EmptyMap]
    /\ UNCHANGED <<cfg, registry, setupErr, ctxDone, spawned, wg,
                   returned, tick, result, pending, crashed>>
    /\ UNCHANGED procVars

\* client.Do returns an error, or a status other than 200, or a body that
\* does not decode: the closure logs and returns
RespondFailure(i, kind) ==
    /\ ~crashed
    /\ pc[i] = "inflight"
    /\ inflight' = [inflight EXCEPT ![i] = inflight[i] - 1]
    /\ request' = [request EXCEPT ![i] = EmptyMap]
    /\ kind \in FailureKinds
    /\ pc' = [pc EXCEPT ![i] = "select"]
    /\ outcome' = [outcome EXCEPT ![i] = "error"]
    /\ UNCHANGED <<cfg, registry, setupErr, gauges, committed, ctxDone, spawned, wg,
                   returned, tick, result, pending, crashed>>
    /\ UNCHANGED procVars

\* status 200 and a body that decodes: result is decoded, componentCounts
\* is built, and the update loop is entered (it ends at once when the map
\* is empty)
RespondOK(i, body) ==
    /\ ~crashed
    /\ pc[i] = "inflight"
    /\ inflight' = [inflight EXCEPT ![i] = inflight[i] - 1]
    /\ request' = [request EXCEPT ![i] = EmptyMap]
    /\ body \in Bodies
    /\ result' = [result EXCEPT ![i] = Decode(body)]
    /\ pending' = [pending EXCEPT ![i] = DOMAIN componentCounts(Decode(body))]
    /\ pc' = [pc EXCEPT ![i] =
                IF DOMAIN componentCounts(Decode(body)) = {} THEN "select" ELSE "writing"]
    /\ outcome' = [outcome EXCEPT ![i] =
                IF DOMAIN componentCounts(Decode(body)) = {} THEN "ok" ELSE "none"]
    /\ UNCHANGED <<cfg, registry, setupErr, gauges, committed, ctxDone, spawned, wg,
                   returned, tick, crashed>>
    /\ UNCHANGED procVars

\* (a closure that reads the loop variable of check: every goroutine
\* writes the vector of the last metric)
WriteLabel_SharedIdx(i, comp) ==
    /\ ~crashed
    /\ pc[i] = "writing"
    /\ comp \in pending[i]
    /\ IF WithLabelValuesPanics(cfg.Metrics[N].GaugeVec, <<comp>>)
       THEN /\ crashed' = TRUE
            /\ UNCHANGED <<gauges, committed, pending, pc, outcome>>
       ELSE /\ gauges' = [gauges EXCEPT ![N] =
                            SetChild(gauges[N], <<comp>>, componentCounts(result[i])[comp])]
            /\ pending' = [pending EXCEPT ![i] = pending[i] \ {comp}]
            /\ pc' = [pc EXCEPT ![i] =
                        IF pending[i] = {comp} THEN "select" ELSE "writing"]
            /\ outcome' = [outcome EXCEPT ![i] =
                        IF pending[i] = {comp} THEN "ok" ELSE "none"]
            /\ committed' = [committed EXCEPT ![N] =
                        IF pending[i] = {comp} THEN gauges'[N] ELSE committed[N]]
            /\ UNCHANGED crashed
    /\ UNCHANGED <<cfg, registry, setupErr, ctxDone, spawned, wg, returned,
                   tick, result>>
    /\ UNCHANGED <<reqVars, procVars>>

\* one iteration of "for comp, count := range componentCounts" (the order
\* of a map range is not specified):
\* cfg.Metrics[idx].GaugeVec.WithLabelValues(comp).Set(count)
WriteLabel(i, comp) ==
    /\ ~crashed
    /\ pc[i] = "writing"
    /\ comp \in pending[i]
    /\ IF WithLabelValuesPanics(cfg.Metrics[i].GaugeVec, <<comp>>)
       THEN /\ crashed' = TRUE
            /\ UNCHANGED <<gauges, committed, pending, pc, outcome>>
       ELSE /\ gauges' = [gauges EXCEPT ![i] =
                            SetChild(gauges[i], <<comp>>, componentCounts(result[i])[comp])]
            /\ pending' = [pending EXCEPT ![i] = pending[i] \ {comp}]
            /\ pc' = [pc EXCEPT ![i] =
                        IF pending[i] = {comp} THEN "select" ELSE "writing"]
            /\ outcome' = [outcome EXCEPT ![i] =
                        IF pending[i] = {comp} THEN "ok" ELSE "none"]
            /\ committed' = [committed EXCEPT ![i] =
                        IF pending[i] = {comp} THEN gauges'[i] ELSE committed[i]]
            /\ UNCHANGED crashed
    /\ UNCHANGED <<cfg, registry, setupErr, ctxDone, spawned, wg, returned,
                   tick, result>>
    /\ UNCHANGED <<reqVars, procVars>>

\* (a select that does not wait for the tick: default: continue)
SelectTick_NoWait(i) ==
    /\ ~crashed
    /\ pc[i] = "select"
    /\ tick' = [tick EXCEPT ![i] = FALSE]
    /\ pc' = [pc EXCEPT ![i] = "cycle"]
    /\ outcome' = [outcome EXCEPT ![i] = "none"]
    /\ result' = [result EXCEPT ![i] = <<>>]
    /\ UNCHANGED <<cfg, registry, setupErr, gauges, committed, ctxDone, spawned, wg,
                   returned, pending, crashed>>
    /\ UNCHANGED <<reqVars, procVars>>

\* select: case <-timer.C: the loop body runs again, with a fresh result
SelectTick(i) ==
    /\ ~crashed
    /\ pc[i] = "select"
    /\ tick[i]
    /\ tick' = [tick EXCEPT ![i] = FALSE]
    /\ pc' = [pc EXCEPT ![i] = "cycle"]
    /\ outcome' = [outcome EXCEPT ![i] = "none"]
    /\ result' = [result EXCEPT ![i] = <<>>]
    /\ UNCHANGED <<cfg, registry, setupErr, gauges, committed, ctxDone, spawned, wg,
                   returned, pending, crashed>>
    /\ UNCHANGED <<reqVars, procVars>>

\* (a break that leaves the select only, not the loop)
SelectDone_BreakSelect(i) ==
    /\ ~crashed
    /\ pc[i] = "select"
    /\ ctxDone
    /\ pc' = [pc EXCEPT ![i] = "cycle"]
    /\ outcome' = [outcome EXCEPT ![i] = "none"]
    /\ result' = [result EXCEPT ![i] = <<>>]
    /\ UNCHANGED <<cfg, registry, setupErr, gauges, committed, ctxDone, spawned,
                   wg, returned, tick, pending, crashed>>
    /\ UNCHANGED <<reqVars, procVars>>

\* select: case <-ctx.Done(): break loop; then the deferred timer.Stop()
\* (the ticker and its channel are dropped) and wg.Done()
SelectDone(i) ==
    /\ ~crashed
    /\ pc[i] = "select"
    /\ ctxDone
    /\ pc' = [pc EXCEPT ![i] = "done"]
    /\ tick' = [tick EXCEPT ![i] = FALSE]
    /\ wg' = wg - 1
    /\ UNCHANGED <<cfg, registry, setupErr, gauges, committed, ctxDone, spawned,
                   returned, outcome, result, pending, crashed>>
    /\ UNCHANGED <<reqVars, procVars>>

\* the caller of check cancels ctx
Cancel ==
    /\ ~crashed
    /\ ~ctxDone
    /\ ctxDone' = TRUE
    /\ UNCHANGED <<cfg, registry, setupErr, gauges, committed, spawned, wg, returned,
                   pc, tick, outcome, result, pending, crashed>>
    /\ UNCHANGED <<reqVars, procVars>>

\* (a check that does not wait for the counter to reach zero)
CheckReturn_NoWait ==
    /\ ~crashed /\ ~returned
    /\ spawned = N
    /\ returned' = TRUE
    /\ UNCHANGED <<cfg, registry, setupErr, gauges, committed, ctxDone, spawned,
                   wg, pc, tick, outcome, result, pending, crashed>>
    /\ UNCHANGED <<reqVars, procVars>>

\* wg.Wait() returns, and check with it
CheckReturn ==
    /\ ~crashed /\ ~returned
    /\ spawned = N
    /\ wg = 0
    /\ returned' = TRUE
    /\ UNCHANGED <<cfg, registry, setupErr, gauges, committed, ctxDone, spawned, wg,
                   pc, tick, outcome, result, pending, crashed>>
    /\ UNCHANGED <<reqVars, procVars>>

Next ==
    \/ Spawn
    \/ Cancel
    \/ CheckReturn
    \/ \E i \in Tasks : StartTask(i)
    \/ \E i \in Tasks : Tick(i)
    \/ \E i \in Tasks : BeginCycle(i)
    \/ \E i \in Tasks : \E kind \in FailureKinds : RespondFailure(i, kind)
    \/ \E i \in Tasks : \E body \in Bodies : RespondOK(i, body)
    \/ \E i \in Tasks : \E comp \in Components : WriteLabel(i, comp)
    \/ \E i \in Tasks : SelectTick(i)
    \/ \E i \in Tasks : SelectDone(i)

Spec == Init /\ [][Next]_vars

(***************************************************************************)
(* setupGauges on its own: main calls it once, on the configuration that   *)
(* loadConfiguration returned, before anything polls.                      *)
(***************************************************************************)
SetupInit ==
    \E c \in LoadedConfigs :
        /\ cfg = c
        /\ registry = <<>>
        /\ setupErr = "unset"
        /\ wg = 0
        /\ Idle(c)
        /\ loadErr = "nil"
        /\ mainPc = "setup"
        /\ sigPc = "nil"
        /\ mainWg = {}

SetupGauges ==
    /\ setupErr = "unset"
    /\ LET s == setupGauges(registry, cfg.Metrics) IN
          /\ registry' = s.registry
          /\ cfg' = [cfg EXCEPT !.Metrics = s.metrics]
          /\ setupErr' = s.err
    /\ UNCHANGED <<gauges, committed, ctxDone, spawned, wg, returned, pc, tick,
                   outcome, result, pending, crashed>>
    /\ UNCHANGED <<reqVars, procVars>>

SetupNext == SetupGauges

SetupSpec == SetupInit /\ [][SetupNext]_vars

(***************************************************************************)
(* loadConfiguration on its own: main calls it once, on what the YAML file *)
(* holds.                                                                  *)
(***************************************************************************)
LoadInit ==
    \E c \in configuration :
        /\ cfg = c
        /\ registry = <<>>
        /\ setupErr = "unset"
        /\ wg = 0
        /\ Idle(c)
        /\ loadErr = "unset"
        /\ mainPc = "load"
        /\ sigPc = "nil"
        /\ mainWg = {}

\* cfg holds the configuration as the loop left it (main gets nil with an
\* error, and exits)
LoadConfiguration ==
    /\ loadErr = "unset"
    /\ cfg' = loadConfiguration(cfg).cfg
    /\ loadErr' = loadConfiguration(cfg).err
    /\ UNCHANGED <<registry, setupErr, gauges, committed, ctxDone, spawned, wg,
                   returned, pc, tick, outcome, result, pending, crashed>>
    /\ UNCHANGED <<reqVars, mainPc, sigPc, mainWg>>

LoadNext == LoadConfiguration

LoadSpec == LoadInit /\ [][LoadNext]_vars

(***************************************************************************)
(* check on one metric, over the static headers a configuration can hold.  *)
(***************************************************************************)
RequestConfigs ==
    {[c EXCEPT !.HTTPHeaders = hs] :
        c \in {d \in CheckConfigs :
                  /\ d.BaseURLValid
                  /\ Len(d.Metrics) = 1
                  /\ DOMAIN d.Metrics[1].Labels = {"component"}
                  /\ d.Metrics[1].ParsedInterval > 0},
        hs \in HeaderMaps}

RequestInit ==
    \E c \in RequestConfigs :
        LET s == setupGauges(<<>>, c.Metrics) IN
        /\ s.err = "nil"
        /\ cfg = [c EXCEPT !.Metrics = s.metrics]
        /\ registry = s.registry
        /\ setupErr = s.err
        /\ wg = Len(c.Metrics)
        /\ Idle(c)
        /\ loadErr = "nil"
        /\ mainPc = "serving"
        /\ sigPc = "wait"
        /\ mainWg = {"signal", "check"}

RequestSpec == RequestInit /\ [][Next]_vars

(***************************************************************************)
(* main from the moment its two goroutines are started: one waits for a    *)
(* signal, closes the HTTP server and cancels ctx; the other runs check.   *)
(* main itself serves until the server is closed, then waits for both.     *)
(***************************************************************************)
\* the order of the shutdown does not depend on the values written: the
\* configurations with at most one vector that takes check's writes
MainConfigs ==
    {c \in CheckConfigs :
        Cardinality({i \in 1..Len(c.Metrics) :
                        Cardinality(DOMAIN c.Metrics[i].Labels) = 1}) <= 1}

MainInit ==
    \E c \in MainConfigs :
        LET s == setupGauges(<<>>, c.Metrics) IN
        /\ s.err = "nil"
        /\ cfg = [c EXCEPT !.Metrics = s.metrics]
        /\ registry = s.registry
        /\ setupErr = s.err
        /\ wg = Len(c.Metrics)
        /\ Idle(c)
        /\ loadErr = "nil"
        /\ mainPc = "serving"
        /\ sigPc = "wait"
        /\ mainWg = {"signal", "check"}

\* SIGINT or SIGTERM is delivered, <-sigChan returns
Signal ==
    /\ ~crashed
    /\ sigPc = "wait"
    /\ sigPc' = "received"
    /\ UNCHANGED <<cfg, registry, setupErr, gauges, committed, ctxDone, spawned, wg,
                   returned, pc, tick, outcome, result, pending, crashed>>
    /\ UNCHANGED <<reqVars, loadErr, mainPc, mainWg>>

\* httpServer.Close()
ServerClose ==
    /\ ~crashed
    /\ sigPc = "received"
    /\ sigPc' = "closed"
    /\ UNCHANGED <<cfg, registry, setupErr, gauges, committed, ctxDone, spawned, wg,
                   returned, pc, tick, outcome, result, pending, crashed>>
    /\ UNCHANGED <<reqVars, loadErr, mainPc, mainWg>>

\* cancel(), and the goroutine ends: the deferred wg.Done()
SignalCancel ==
    /\ ~crashed
    /\ sigPc = "closed"
    /\ sigPc' = "done"
    /\ ctxDone' = TRUE
    /\ mainWg' = mainWg \ {"signal"}
    /\ UNCHANGED <<cfg, registry, setupErr, gauges, committed, spawned, wg,
                   returned, pc, tick, outcome, result, pending, crashed>>
    /\ UNCHANGED <<reqVars, loadErr, mainPc>>

\* check has returned in its goroutine: the deferred wg.Done()
CheckDone ==
    /\ ~crashed
    /\ returned
    /\ "check" \in mainWg
    /\ mainWg' = mainWg \ {"check"}
    /\ UNCHANGED <<cfg, registry, setupErr, gauges, committed, ctxDone, spawned, wg,
                   returned, pc, tick, outcome, result, pending, crashed>>
    /\ UNCHANGED <<reqVars, loadErr, mainPc, sigPc>>

\* ListenAndServe returns http.ErrServerClosed once the server is closed
ListenReturn ==
    /\ ~crashed
    /\ mainPc = "serving"
    /\ sigPc \in {"closed", "done"}
    /\ mainPc' = "waiting"
    /\ UNCHANGED <<cfg, registry, setupErr, gauges, committed, ctxDone, spawned, wg,
                   returned, pc, tick, outcome, result, pending, crashed>>
    /\ UNCHANGED <<reqVars, loadErr, sigPc, mainWg>>

\* ListenAndServe returns another error (the address cannot be bound):
\* log.Fatal, the process exits
ListenFail ==
    /\ ~crashed
    /\ mainPc = "serving"
    /\ sigPc \in {"wait", "received"}
    /\ mainPc' = "fatal"
    /\ crashed' = TRUE
    /\ UNCHANGED <<cfg, registry, setupErr, gauges, committed, ctxDone, spawned, wg,
                   returned, pc, tick, outcome, result, pending>>
    /\ UNCHANGED <<reqVars, loadErr, sigPc, mainWg>>

\* (a main that does not wait for its goroutines)
MainReturn_NoWait ==
    /\ ~crashed
    /\ mainPc = "waiting"
    /\ mainPc' = "returned"
    /\ UNCHANGED <<cfg, registry, setupErr, gauges, committed, ctxDone, spawned, wg,
                   returned, pc, tick, outcome, result, pending, crashed>>
    /\ UNCHANGED <<reqVars, loadErr, sigPc, mainWg>>

\* wg.Wait() returns, and main with it
MainReturn ==
    /\ ~crashed
    /\ mainPc = "waiting"
    /\ mainWg = {}
    /\ mainPc' = "returned"
    /\ UNCHANGED <<cfg, registry, setupErr, gauges, committed, ctxDone, spawned, wg,
                   returned, pc, tick, outcome, result, pending, crashed>>
    /\ UNCHANGED <<reqVars, loadErr, sigPc, mainWg>>

\* ctx is cancelled by the signal goroutine only
MainNext ==
    \/ Signal
    \/ ServerClose
    \/ SignalCancel
    \/ CheckDone
    \/ ListenReturn
    \/ ListenFail
    \/ MainReturn
    \/ Spawn
    \/ CheckReturn
    \/ \E i \in Tasks : StartTask(i)
    \/ \E i \in Tasks : Tick(i)
    \/ \E i \in Tasks : BeginCycle(i)
    \/ \E i \in Tasks : \E kind \in FailureKinds : RespondFailure(i, kind)
    \/ \E i \in Tasks : \E body \in Bodies : RespondOK(i, body)
    \/ \E i \in Tasks : \E comp \in Components : WriteLabel(i, comp)
    \/ \E i \in Tasks : SelectTick(i)
    \/ \E i \in Tasks : SelectDone(i)

MainSpec == MainInit /\ [][MainNext]_vars

(***************************************************************************)
(* Properties of the poll cycle.                                           *)
(***************************************************************************)
\* the number of issues of a response that carry component S
ItemsCarrying(res, S) ==
    Cardinality({k \in 1..Len(res) : \E j \in 1..Len(res[k]) : res[k][j] = S})

\* the Observation Set of a response, keyed like the children of a family
ObservationSet(res) ==
    [lvs \in {<<S>> : S \in {c \in Components : ItemsCarrying(res, c) > 0}} |->
        ItemsCarrying(res, lvs[1])]

\* the cycle of goroutine i got status 200 and a body that decoded, and is over
SuccessfulCycleOver(i) ==
    \/ outcome[i] = "ok"
    \/ pc[i] = "writing" /\ crashed

\* C1: after a successful poll cycle, for every component S carried by an
\* issue of the response, the value published for label S in the metric's
\* family is the number of issues of the response that carry S.
C1_CountsPublished ==
    \A i \in Tasks :
        SuccessfulCycleOver(i) =>
            \A S \in Components :
                ItemsCarrying(result[i], S) > 0 =>
                    /\ <<S>> \in DOMAIN gauges[i]
                    /\ gauges[i][<<S>>] = ItemsCarrying(result[i], S)

\* C2: after a successful poll cycle the label values present in the
\* family, and their counts, are exactly the Observation Set of that cycle:
\* a label value of an earlier cycle that the latest one lacks is gone.
C2_ExactlyLatestObservation ==
    \A i \in Tasks :
        outcome[i] = "ok" => gauges[i] = ObservationSet(result[i])

\* C3: a poll cycle that fails (request construction, transport, status,
\* decode) leaves every family as it was, the goroutine goes on to its
\* select, and the process is not terminated.
CycleFails(i) == outcome[i] = "none" /\ outcome'[i] = "error"

C3_FailureLeavesFamilies ==
    [][\A i \in Tasks :
          CycleFails(i) =>
              /\ gauges' = gauges
              /\ pc'[i] = "select"
              /\ ~crashed'
              /\ wg' = wg /\ returned' = returned]_vars

C3_Witness ==
    /\ N = 2
    /\ outcome[1] = "error" /\ pc[1] = "select"
    /\ DOMAIN gauges[1] = {<<"A">>, <<"B">>}
    /\ DOMAIN gauges[2] # {}

\* C4: for a metric without labels, a successful poll publishes one
\* unlabeled gauge value, the number of matching issues the response
\* reports (its "total").
C4_UnlabeledTotal ==
    [][\A i \in Tasks : \A body \in Bodies :
          (/\ DOMAIN cfg.Metrics[i].Labels = {}
           /\ RespondOK(i, body)
           /\ pc'[i] = "select") =>
              /\ DOMAIN gauges'[i] = {<<>>}
              /\ gauges'[i][<<>>] = body.total]_vars

\* C5: check returns only after every goroutine it started has left its
\* loop: none is running, at its select, or has a request in flight.
C5_ReturnAfterAllExited ==
    returned => \A i \in Tasks : pc[i] = "done"

C5_Witness ==
    /\ returned
    /\ N = 2
    /\ \A i \in Tasks : DOMAIN gauges[i] # {}

(***************************************************************************)
(* Scheduling: the Go runtime lets every goroutine that can take a step    *)
(* take it, a select whose ctx.Done() case stays ready is not passed over  *)
(* for ever in favour of its timer case, and every request sent is taken   *)
(* to be answered or to fail at some time.                                 *)
(***************************************************************************)
Respond(i) ==
    \/ \E kind \in FailureKinds : RespondFailure(i, kind)
    \/ \E body \in Bodies : RespondOK(i, body)

Fairness ==
    /\ WF_vars(Spawn)
    /\ WF_vars(CheckReturn)
    /\ \A i \in 1..MaxMetrics :
          /\ WF_vars(i \in Tasks /\ StartTask(i))
          /\ WF_vars(i \in Tasks /\ BeginCycle(i))
          /\ WF_vars(i \in Tasks /\ Respond(i))
          /\ WF_vars(i \in Tasks /\ \E comp \in Components : WriteLabel(i, comp))
          /\ SF_vars(i \in Tasks /\ SelectDone(i))

FairSpec == Init /\ [][Next]_vars /\ Fairness

\* C6: once ctx is cancelled, every goroutine leaves its loop and check
\* returns, whatever each goroutine is doing when the cancellation comes.
C6_CancelLeadsToReturn ==
    ctxDone ~> (returned /\ \A i \in Tasks : pc[i] = "done")

\* C7 as claimed: no request is started in a state where ctx is already
\* cancelled, the first cycle and a tick pending with the cancellation
\* included.
C7_NoRequestAfterCancel ==
    [][\A i \in Tasks :
          (pc[i] = "cycle" /\ pc'[i] = "inflight") => ~ctxDone]_vars

\* C7 as amended: a goroutine that has taken the ctx.Done() case has left
\* its loop for good, and a goroutine at its select with ctx cancelled and
\* no tick buffered does not begin a cycle.
C7_NoRequestOnceObserved ==
    [][\A i \in Tasks :
          /\ pc[i] = "done" => pc'[i] = "done"
          /\ (pc[i] = "select" /\ ctxDone /\ ~tick[i]) =>
                 pc'[i] \in {"select", "done"}]_vars

C7_Witness ==
    /\ ctxDone
    /\ N = 2
    /\ pc[1] = "done" /\ DOMAIN gauges[1] # {}
    /\ pc[2] = "inflight"

\* C8: a goroutine never waits on a step of another one: whatever the
\* others do (fail on every cycle, never get an answer), a goroutine at its
\* select with a tick buffered can start its next poll, one that is about
\* to send can send, and one in its update loop, with a family that takes
\* its label value, can write it.
C8_TaskIsolation ==
    \A j \in Tasks :
        /\ (pc[j] = "select" /\ tick[j]) => ENABLED SelectTick(j)
        /\ pc[j] = "cycle" => ENABLED BeginCycle(j)
        /\ (pc[j] = "writing" /\ ~WithLabelValuesPanics(cfg.Metrics[j].GaugeVec, <<"A">>)) =>
               ENABLED (\E comp \in Components : WriteLabel(j, comp))

\* what a scrape reads of the family of metric i
Snapshot(i) == gauges[i]

\* the family of metric i once the update loop under way (if any) is over
AfterWrite(i) ==
    [lvs \in DOMAIN committed[i] \cup {<<S>> : S \in DOMAIN componentCounts(result[i])} |->
        IF lvs[1] \in DOMAIN componentCounts(result[i])
        THEN componentCounts(result[i])[lvs[1]]
        ELSE committed[i][lvs]]

\* the labels the update loop under way has written
Written(i) == DOMAIN componentCounts(result[i]) \ pending[i]

C10_FamiliesExposed ==
    setupErr = "nil" =>
        /\ Cardinality(Gather(registry, gauges)) = N
        /\ \A i \in Tasks :
              \E f \in Gather(registry, gauges) :
                  /\ f.name = "jira_" \o cfg.Metrics[i].Name
                  /\ f.help = cfg.Metrics[i].Help
                  /\ f.type = "GAUGE"

\* C11: when setupGauges returns an error, the call has left nothing in the
\* registry: the definitions before the duplicate are not registered.
C11_NoPartialRegistration ==
    setupErr = "error" => registry = <<>>

C14_StaticLabelsOnSamples ==
    \A i \in Tasks :
        \A lvs \in DOMAIN gauges[i] :
            \A k \in DOMAIN cfg.Metrics[i].Labels :
                LabelPairs(cfg.Metrics[i].GaugeVec, lvs)[k] = cfg.Metrics[i].Labels[k]

\* C15: a goroutine that starts goes straight to its first cycle, without
\* taking a tick; every other entry into a cycle is from the select, and
\* takes the tick buffered in the goroutine's own timer.C.
C15_FirstCycleThenTicks ==
    [][\A i \in Tasks :
          /\ pc[i] = "spawned" =>
                \/ pc'[i] = "spawned"
                \/ pc'[i] = "cycle" /\ tick'[i] = tick[i]
          /\ (pc[i] \notin {"spawned", "cycle"} /\ pc'[i] = "cycle") =>
                /\ pc[i] = "select"
                /\ tick[i] /\ ~tick'[i]
                /\ \A j \in Tasks \ {i} : tick'[j] = tick[j]]_vars

C15_Witness ==
    \E i \in Tasks :
        /\ pc[i] = "inflight"
        /\ committed[i] # EmptyMap

\* C18: in every state, the middle of an update loop over several labels
\* included, every child of every family holds a number that is not
\* negative.
C18_CountsDefined ==
    \A i \in Tasks :
        \A lvs \in DOMAIN gauges[i] :
            /\ gauges[i][lvs] \in Int
            /\ gauges[i][lvs] >= 0

C18_Witness ==
    \E i \in Tasks :
        /\ pc[i] = "writing"
        /\ Written(i) # {}
        /\ pending[i] # {}
        /\ committed[i] # EmptyMap

\* C19: check starts one goroutine per metric definition, in order, and the
\* family of metric i changes only in a step of goroutine i's update loop.
C19_SingleWriter ==
    /\ [](/\ spawned <= N
          /\ DOMAIN pc = Tasks
          /\ \A i \in Tasks : (pc[i] # "nil") <=> (i <= spawned)
          /\ returned => spawned = N)
    /\ [][\A i \in Tasks :
             gauges'[i] # gauges[i] =>
                 /\ pc[i] = "writing"
                 /\ pending'[i] # pending[i]
                 /\ \A j \in Tasks \ {i} : gauges'[j] = gauges[j]]_vars

C19_Witness ==
    /\ N = 2
    /\ gauges[1] # EmptyMap
    /\ gauges[2] # EmptyMap
    /\ gauges[1] # gauges[2]

\* C16: a goroutine has at most one request in flight, and it has one
\* exactly while it waits for the answer; it enters a cycle only from its
\* start or from its select, after the cycle before is over (with "ok" or
\* "error"), and then by taking a tick of its own timer: a cycle that
\* failed is not run again before the next tick.
C16_SequentialCycles ==
    /\ [](\A i \in Tasks :
             /\ inflight[i] \in {0, 1}
             /\ inflight[i] = 1 <=> pc[i] = "inflight")
    /\ [][\A i \in Tasks :
             /\ (pc[i] # "cycle" /\ pc'[i] = "cycle") =>
                    \/ pc[i] = "spawned"
                    \/ /\ pc[i] = "select"
                       /\ outcome[i] \in {"ok", "error"}
                       /\ tick[i] /\ ~tick'[i]
             /\ inflight'[i] > inflight[i] => pc[i] = "cycle"]_vars

C16_Witness ==
    \E i \in Tasks :
        /\ pc[i] = "select"
        /\ outcome[i] = "error"
        /\ committed[i] # EmptyMap
        /\ tick[i]
        /\ \E j \in Tasks \ {i} : inflight[j] = 1

\* the configured header names that Header.Set stores under name c
SameHeader(c) ==
    {k \in DOMAIN cfg.HTTPHeaders : CanonicalMIMEHeaderKey(k) = c}

\* C17 as claimed: a request in flight carries the basic-auth value of the
\* configured login and password under Authorization, and every configured
\* static header of another name with its configured value.
C17_EveryStaticHeaderCarried ==
    \A i \in Tasks :
        pc[i] = "inflight" =>
            /\ "Authorization" \in DOMAIN request[i]
            /\ request[i]["Authorization"] = BasicAuth(cfg.Login, cfg.Password)
            /\ \A k \in DOMAIN cfg.HTTPHeaders :
                  CanonicalMIMEHeaderKey(k) # "Authorization" =>
                      /\ CanonicalMIMEHeaderKey(k) \in DOMAIN request[i]
                      /\ request[i][CanonicalMIMEHeaderKey(k)] = cfg.HTTPHeaders[k]

\* C17 as amended: a request in flight carries the basic-auth value of the
\* configured login and password under Authorization, whatever static
\* header is configured under that name in any case of letters; it carries
\* every other configured static header under the canonical form of its
\* name, with the value configured for it or for another configured name
\* of the same canonical form; and it carries no other header.
C17_AuthLast ==
    \A i \in Tasks :
        pc[i] = "inflight" =>
            /\ DOMAIN request[i] =
                  {"Authorization"} \cup
                  {CanonicalMIMEHeaderKey(k) : k \in DOMAIN cfg.HTTPHeaders}
            /\ request[i]["Authorization"] = BasicAuth(cfg.Login, cfg.Password)
            /\ \A c \in DOMAIN request[i] \ {"Authorization"} :
                  \E k \in SameHeader(c) : request[i][c] = cfg.HTTPHeaders[k]

C17_Witness ==
    \E i \in Tasks :
        /\ pc[i] = "inflight"
        /\ DOMAIN cfg.HTTPHeaders = HeaderNames
        /\ cfg.HTTPHeaders["X-Custom"] # cfg.HTTPHeaders["x-custom"]
        /\ request[i]["X-Custom"] = cfg.HTTPHeaders["x-custom"]
        /\ request[i]["Authorization"] # cfg.HTTPHeaders["authorization"]

\* C20: every metric of a configuration that loadConfiguration accepted has
\* an interval above zero.
C20_AcceptedIntervalPositive ==
    loadErr = "nil" =>
        \A i \in Tasks : cfg.Metrics[i].ParsedInterval > 0

\* C13: ctx is cancelled by the signal goroutine only, after it closed the
\* HTTP server; main leaves ListenAndServe only once the server is closed,
\* and has returned only after the signal goroutine cancelled ctx and check
\* returned, with every polling goroutine out of its loop.
C13_ShutdownOrder ==
    /\ ctxDone <=> sigPc = "done"
    /\ mainPc \in {"waiting", "returned"} => sigPc \in {"closed", "done"}
    /\ mainPc = "returned" =>
          /\ ctxDone
          /\ returned
          /\ spawned = N
          /\ \A i \in Tasks : pc[i] = "done"

C13_Witness ==
    /\ mainPc = "returned"
    /\ N = 2
    /\ gauges[1] # EmptyMap

\* C21: whatever the number of label names a metric's vector was registered
\* with, each write of an update loop gives WithLabelValues as many values
\* as the vector has label names, so that no write panics.
C21_WriteNeverPanics ==
    \A i \in Tasks :
        pc[i] = "writing" =>
            \A comp \in pending[i] :
                ~WithLabelValuesPanics(cfg.Metrics[i].GaugeVec, <<comp>>)

====
